---- MODULE Spec2Model ----
(***************************************************************************)
(* Model of lsof-work-ports (src/src/main.rs): the listener classification *)
(* and aggregation pipeline of main(), and the scoring function            *)
(* calc_dev_score.                                                         *)
(*                                                                         *)
(* Strings are TLA+ strings over the ASCII characters of CharOrder.  A     *)
(* Vec is a sequence.  A HashMap is a function on its key set; its         *)
(* iteration order is not fixed by the program (std RandomState), so every *)
(* iteration over a map picks an arbitrary permutation of the keys.        *)
(***************************************************************************)
EXTENDS Integers, Sequences, FiniteSets, TLC

VARIABLES
    pc,                  \* position of main(): which stage has completed
    cli,                 \* Cli: all, limit, sort_recent
    config,              \* Config: the rule set and score_threshold
    port_infos,          \* `filtered`, the Vec<PortInfo> given to group_by_port
    grouped,             \* result of group_by_port
    dev_processes,       \* dev tier
    non_dev,             \* remainder after the --all switch
    others,              \* single port, single pid
    multis,              \* single port, several pids
    process_group_items, \* seed of the process groups
    process_groups,      \* result of group_by_process
    total_count,         \* the count printed by main
    args,                \* arguments of a direct call of calc_dev_score
    score                \* its result

vars == << pc, cli, config, port_infos, grouped, dev_processes, non_dev, others,
           multis, process_group_items, process_groups, total_count, args, score >>

(***************************************************************************)
(* Generic helpers                                                         *)
(***************************************************************************)
Range(s) == { s[i] : i \in 1..Len(s) }

Min(a, b) == IF a <= b THEN a ELSE b

\* Iterator::take(n) followed by collect()
Take(s, n) == SubSeq(s, 1, Min(n, Len(s)))

\* the possible iteration orders of a hash map with key set S
Perms(S) ==
    { f \in [1..Cardinality(S) -> S] : \A i, j \in 1..Cardinality(S) : f[i] = f[j] => i = j }

(***************************************************************************)
(* Strings: str::to_lowercase, str::contains, Ord for String               *)
(***************************************************************************)
Upper == "ABCDEFGHIJKLMNOPQRSTUVWXYZ"
Lower == "abcdefghijklmnopqrstuvwxyz"

\* the characters of the model's strings, in ascending byte order
CharOrder == " *-./0123456789:ABCDEFGHIJKLMNOPQRSTUVWXYZ[]_abcdefghijklmnopqrstuvwxyz"

CharAt(s, i) == SubSeq(s, i, i)

Chars == { CharAt(CharOrder, i) : i \in 1..Len(CharOrder) }

\* the position of each character in the byte order
CharRank == [ c \in Chars |-> CHOOSE i \in 1..Len(CharOrder) : CharAt(CharOrder, i) = c ]

\* char::to_lowercase on ASCII: A-Z go to a-z, every other character stays
LowerChar ==
    [ c \in Chars |->
        IF \E i \in 1..Len(Upper) : CharAt(Upper, i) = c
        THEN CharAt(Lower, CHOOSE i \in 1..Len(Upper) : CharAt(Upper, i) = c)
        ELSE c ]

RECURSIVE to_lowercase(_)
to_lowercase(s) ==
    IF Len(s) = 0 THEN ""
    ELSE LowerChar[CharAt(s, 1)] \o to_lowercase(SubSeq(s, 2, Len(s)))

\* haystack.contains(needle): needle occurs as a contiguous substring
contains(haystack, needle) ==
    \E i \in 0..(Len(haystack) - Len(needle)) :
        SubSeq(haystack, i + 1, i + Len(needle)) = needle

\* a < b in the byte-wise lexicographic order of String
RECURSIVE StrLess(_, _)
StrLess(a, b) ==
    IF Len(b) = 0 THEN FALSE
    ELSE IF Len(a) = 0 THEN TRUE
    ELSE IF CharAt(a, 1) = CharAt(b, 1)
         THEN StrLess(SubSeq(a, 2, Len(a)), SubSeq(b, 2, Len(b)))
         ELSE CharRank[CharAt(a, 1)] < CharRank[CharAt(b, 1)]

(***************************************************************************)
(* Development process detection                                           *)
(***************************************************************************)
DEFAULT_DEV_PROCESSES ==
    << "node", "deno", "bun", "ts-node", "tsx", "npx", "python", "python3", "uvicorn",
       "gunicorn", "uwsgi", "hypercorn", "ruby", "puma", "unicorn", "thin", "passenger",
       "php", "php-fpm", "java", "kotlin", "scala", "gradle", "mvn", "go", "cargo",
       "rust-analyzer", "rustc", "dotnet", "elixir", "erl", "beam", "mix", "iex", "lua",
       "luajit", "perl", "R", "Rscript", "julia" >>

DEFAULT_DEV_KEYWORDS ==
    << "webpack", "vite", "esbuild", "rollup", "parcel", "turbopack", "gulp", "grunt",
       "snowpack", "wmr", "next", "nuxt", "remix", "gatsby", "astro", "svelte", "angular",
       "vue", "react", "solid", "qwik", "fresh", "express", "nestjs", "koa", "hono",
       "fastify", "restify", "hapi", "polka", "django", "flask", "fastapi", "starlette",
       "sanic", "tornado", "aiohttp", "rails", "sinatra", "hanami", "roda", "laravel",
       "symfony", "artisan", "gin", "echo", "fiber", "chi", "mux", "actix", "axum",
       "rocket", "warp", "spring", "quarkus", "micronaut", "phoenix", "plug", "npm",
       "yarn", "pnpm", "pip", "poetry", "pdm", "uv", "bundle", "gem", "composer", "mix",
       "dev", "serve", "start", "watch", "hot-reload", "livereload", "run", "jest",
       "vitest", "playwright", "cypress", "mocha", "pytest", "rspec", "prisma", "drizzle",
       "typeorm", "sequelize", "knex", "storybook", "docusaurus", "vuepress", "vitepress" >>

DEFAULT_EXCLUDE_PROCESSES ==
    << "Code Helper", "Electron Helper", "Chrome Helper", "Chromium Helper", "Dropbox",
       "OneDrive", "Creative Cloud" >>

DEV_SCORE_THRESHOLD == 30

\* Config::default() when the bundled TOML does not parse: the built-in lists
DefaultConfig ==
    [ dev_processes     |-> DEFAULT_DEV_PROCESSES,
      dev_keywords      |-> DEFAULT_DEV_KEYWORDS,
      exclude_processes |-> DEFAULT_EXCLUDE_PROCESSES,
      score_threshold   |-> DEV_SCORE_THRESHOLD ]

is_local_address(address) ==
    address \in { "127.0.0.1", "localhost", "0.0.0.0", "*", "[::1]", "[::]" }

\* mutant: one range from 3000 to 9999, the gap 6000-7999 included
InDevPortRange_OneRange(port) == port \in 3000..9999

InDevPortRange(port) ==
    \/ port \in 3000..3999
    \/ port \in 4000..4999
    \/ port \in 5000..5999
    \/ port \in 8000..8999
    \/ port \in 9000..9999

\* mutant: the exclusion list is matched against the process name only
IsExcluded_NameOnly(process_lower, command_lower, exclude_processes) ==
    \E i \in 1..Len(exclude_processes) :
        contains(process_lower, to_lowercase(exclude_processes[i]))

IsExcluded(process_lower, command_lower, exclude_processes) ==
    \E i \in 1..Len(exclude_processes) :
        LET e_lower == to_lowercase(exclude_processes[i])
        IN  contains(process_lower, e_lower) \/ contains(command_lower, e_lower)

ProcessMatch(process_lower, dev_processes_) ==
    \E i \in 1..Len(dev_processes_) : contains(process_lower, to_lowercase(dev_processes_[i]))

KeywordMatch(command_lower, dev_keywords) ==
    \E i \in 1..Len(dev_keywords) : contains(command_lower, to_lowercase(dev_keywords[i]))

calc_dev_score(process, command, port, address, dev_processes_, dev_keywords, exclude_processes) ==
    LET process_lower == to_lowercase(process)
        command_lower == to_lowercase(command)
    IN  IF IsExcluded(process_lower, command_lower, exclude_processes)
        THEN 0
        ELSE (IF ProcessMatch(process_lower, dev_processes_) THEN 30 ELSE 0)
           + (IF KeywordMatch(command_lower, dev_keywords) THEN 25 ELSE 0)
           + (IF is_local_address(address) THEN 10 ELSE 0)
           + (IF InDevPortRange(port) THEN 15 ELSE 0)

(***************************************************************************)
(* Port aggregation                                                        *)
(***************************************************************************)
\* mutant: only a key equal to the one just before it is dropped (Vec::dedup)
RECURSIVE dedup_by_Adjacent(_, _)
dedup_by_Adjacent(keys, seen) ==
    IF Len(keys) = 0 THEN << >>
    ELSE IF keys[1] \in seen
         THEN dedup_by_Adjacent(Tail(keys), seen)
         ELSE << keys[1] >> \o dedup_by_Adjacent(Tail(keys), { keys[1] })

\* dedup_by: the key of each item whose key was not seen before, in order
RECURSIVE dedup_by(_, _)
dedup_by(keys, seen) ==
    IF Len(keys) = 0 THEN << >>
    ELSE IF keys[1] \in seen
         THEN dedup_by(Tail(keys), seen)
         ELSE << keys[1] >> \o dedup_by(Tail(keys), seen \cup { keys[1] })

deduplicate_pids(infos) == dedup_by([ i \in 1..Len(infos) |-> infos[i].pid ], {})

\* mutant: insert(port, vec![info]) in place of entry(port).or_default().push(info)
GroupedByPort_LastWins(infos) ==
    [ port \in { infos[i].port : i \in 1..Len(infos) } |->
        LET last == CHOOSE i \in 1..Len(infos) :
                        /\ infos[i].port = port
                        /\ \A j \in 1..Len(infos) : infos[j].port = port => j <= i
        IN  << infos[last] >> ]

\* the HashMap<u16, Vec<PortInfo>> filled by the loop over port_infos
GroupedByPort(infos) ==
    [ port \in { infos[i].port : i \in 1..Len(infos) } |->
        SelectSeq(infos, LAMBDA info : info.port = port) ]

\* mutant: infos.last() in place of infos.first()
MakeGroupedPortInfo_LastRecord(port, infos, cfg) ==
    LET rep == infos[Len(infos)]
    IN  [ port       |-> port,
          processes  |-> [ i \in 1..Len(infos) |-> infos[i].process ],
          pids       |-> deduplicate_pids(infos),
          command    |-> rep.command,
          start_time |-> rep.start_time,
          is_local   |-> is_local_address(rep.address),
          dev_score  |-> calc_dev_score(rep.process, rep.command, port, rep.address,
                                        cfg.dev_processes, cfg.dev_keywords,
                                        cfg.exclude_processes) ]

\* the closure mapped over the entries (port, infos) of the map
MakeGroupedPortInfo(port, infos, cfg) ==
    LET processes  == [ i \in 1..Len(infos) |-> infos[i].process ]
        pids       == deduplicate_pids(infos)
        command    == IF Len(infos) > 0 THEN infos[1].command ELSE ""
        start_time == IF Len(infos) > 0 THEN infos[1].start_time ELSE ""
        is_local   == IF Len(infos) > 0 THEN is_local_address(infos[1].address) ELSE FALSE
        address    == IF Len(infos) > 0 THEN infos[1].address ELSE "*"
        process    == IF Len(infos) > 0 THEN infos[1].process ELSE ""
    IN  [ port       |-> port,
          processes  |-> processes,
          pids       |-> pids,
          command    |-> command,
          start_time |-> start_time,
          is_local   |-> is_local,
          dev_score  |-> calc_dev_score(process, command, port, address,
                                        cfg.dev_processes, cfg.dev_keywords,
                                        cfg.exclude_processes) ]

\* group_by_port, for one iteration order of the map
group_by_port(infos, cfg, order) ==
    LET map == GroupedByPort(infos)
    IN  [ k \in 1..Len(order) |-> MakeGroupedPortInfo(order[k], map[order[k]], cfg) ]

(***************************************************************************)
(* Tier partition                                                          *)
(***************************************************************************)
\* info.processes.first().cloned().unwrap_or_default()
FirstProcess(info) == IF Len(info.processes) > 0 THEN info.processes[1] ELSE ""

\* mutant: a score equal to the threshold does not count as development
IsDev_Strict(info, cfg) == info.dev_score > cfg.score_threshold

IsDev(info, cfg) == info.dev_score >= cfg.score_threshold

\* the HashMap<String, Vec<GroupedPortInfo>> filled by the loop over the items
ByProcess(items) ==
    [ name \in { FirstProcess(items[i]) : i \in 1..Len(items) } |->
        SelectSeq(items, LAMBDA item : FirstProcess(item) = name) ]

\* mutant: a bucket of several ports hands on its first item only
RECURSIVE BucketLoop_FirstItem(_, _, _, _)
BucketLoop_FirstItem(by_process, order, k, acc) ==
    IF k > Len(order) THEN acc
    ELSE LET items == by_process[order[k]]
             next  == IF Len(items) = 1
                      THEN IF Len(items[1].pids) = 1
                           THEN [ acc EXCEPT !.others = Append(@, items[1]) ]
                           ELSE [ acc EXCEPT !.multis = Append(@, items[1]) ]
                      ELSE [ acc EXCEPT !.process_groups = Append(@, items[1]) ]
         IN  BucketLoop_FirstItem(by_process, order, k + 1, next)

\* mutant: a single-port bucket is told apart by its number of process names,
\* not of pids
RECURSIVE BucketLoop_ByNames(_, _, _, _)
BucketLoop_ByNames(by_process, order, k, acc) ==
    IF k > Len(order) THEN acc
    ELSE LET items == by_process[order[k]]
             next  == IF Len(items) = 1
                      THEN IF Len(items[1].processes) = 1
                           THEN [ acc EXCEPT !.others = Append(@, items[1]) ]
                           ELSE [ acc EXCEPT !.multis = Append(@, items[1]) ]
                      ELSE [ acc EXCEPT !.process_groups = @ \o items ]
         IN  BucketLoop_ByNames(by_process, order, k + 1, next)

\* mutant: a single-port bucket of several pids joins the process groups
RECURSIVE BucketLoop_MultisToGroups(_, _, _, _)
BucketLoop_MultisToGroups(by_process, order, k, acc) ==
    IF k > Len(order) THEN acc
    ELSE LET items == by_process[order[k]]
             next  == IF Len(items) = 1 /\ Len(items[1].pids) = 1
                      THEN [ acc EXCEPT !.others = Append(@, items[1]) ]
                      ELSE [ acc EXCEPT !.process_groups = @ \o items ]
         IN  BucketLoop_MultisToGroups(by_process, order, k + 1, next)

\* the loop over by_process, in iteration order `order`, from bucket k on
RECURSIVE BucketLoop(_, _, _, _)
BucketLoop(by_process, order, k, acc) ==
    IF k > Len(order) THEN acc
    ELSE LET items == by_process[order[k]]
             next  == IF Len(items) = 1
                      THEN IF Len(items[1].pids) = 1
                           THEN [ acc EXCEPT !.others = Append(@, items[1]) ]
                           ELSE [ acc EXCEPT !.multis = Append(@, items[1]) ]
                      ELSE [ acc EXCEPT !.process_groups = @ \o items ]
         IN  BucketLoop(by_process, order, k + 1, next)

(***************************************************************************)
(* Process regrouping                                                      *)
(***************************************************************************)
\* mutant: one pair per port, with the first pid
PairsOf_FirstPid(info) == IF Len(info.pids) = 0 THEN << >> ELSE << << info.port, info.pids[1] >> >>

\* the (port, pid) pairs of one GroupedPortInfo, in pid order
PairsOf(info) == [ j \in 1..Len(info.pids) |-> << info.port, info.pids[j] >> ]

RECURSIVE CollectPairs(_)
CollectPairs(infos) ==
    IF Len(infos) = 0 THEN << >> ELSE PairsOf(infos[1]) \o CollectPairs(Tail(infos))

MakeProcessGroup(process_name, infos) ==
    [ process_name   |-> process_name,
      port_pid_pairs |-> CollectPairs(infos),
      command        |-> IF Len(infos) > 0 THEN infos[1].command ELSE "",
      start_time     |-> IF Len(infos) > 0 THEN infos[1].start_time ELSE "",
      is_local       |-> IF Len(infos) > 0 THEN infos[1].is_local ELSE FALSE ]

\* group_by_process, for one iteration order of the map
group_by_process(items, order) ==
    LET map == ByProcess(items)
    IN  [ k \in 1..Len(order) |-> MakeProcessGroup(order[k], map[order[k]]) ]

(***************************************************************************)
(* Sorting and limiting                                                    *)
(***************************************************************************)
\* b.start_time.cmp(&a.start_time): a goes first when its start_time is greater
RecentLess(a, b) == StrLess(b.start_time, a.start_time)

\* mutant: b.dev_score.cmp(&a.dev_score) without .then(a.port.cmp(&b.port))
DevLess_NoTieBreak(a, b) == a.dev_score > b.dev_score

\* mutant: a.dev_score.cmp(&b.dev_score), the lowest score first
DevLess_Ascending(a, b) ==
    \/ a.dev_score < b.dev_score
    \/ a.dev_score = b.dev_score /\ a.port < b.port

\* b.dev_score.cmp(&a.dev_score).then(a.port.cmp(&b.port))
DevLess(a, b) ==
    \/ a.dev_score > b.dev_score
    \/ a.dev_score = b.dev_score /\ a.port < b.port

\* sort_by_key(|info| info.port)
PortLess(a, b) == a.port < b.port

\* sort_by_key(|g| g.process_name.clone())
NameLess(a, b) == StrLess(a.process_name, b.process_name)

\* the comparison of each sort call of main
Less(cmp, a, b) ==
    CASE cmp = "recent" -> RecentLess(a, b)
      [] cmp = "dev"    -> DevLess(a, b)
      [] cmp = "port"   -> PortLess(a, b)
      [] cmp = "name"   -> NameLess(a, b)

\* slice::sort_by and sort_by_key are stable: an element goes after every
\* element that does not compare greater than it
RECURSIVE InsertSorted(_, _, _)
InsertSorted(sorted, x, cmp) ==
    IF Len(sorted) = 0 THEN << x >>
    ELSE IF Less(cmp, x, sorted[1])
         THEN << x >> \o sorted
         ELSE << sorted[1] >> \o InsertSorted(Tail(sorted), x, cmp)

RECURSIVE SortFrom(_, _, _, _)
SortFrom(s, k, sorted, cmp) ==
    IF k > Len(s) THEN sorted
    ELSE SortFrom(s, k + 1, InsertSorted(sorted, s[k], cmp), cmp)

sort_by(s, cmp) == SortFrom(s, 1, << >>, cmp)

\* usize::MAX does not fit TLC's integers; TLC's largest integer stands for it
USIZE_MAX == 2147483647

\* mutant: the limit as given, 0 taken as a limit of no element
EffectiveLimit_ZeroIsZero(c) == c.limit

EffectiveLimit(c) == IF c.limit > 0 THEN c.limit ELSE USIZE_MAX

(***************************************************************************)
(* Inputs                                                                  *)
(***************************************************************************)
MaxRecords == 3
MaxLimit == 2

\* a small rule set of the shape of the built-in one
TestConfig(threshold) ==
    [ dev_processes     |-> << "node", "python" >>,
      dev_keywords      |-> << "vite", "dev" >>,
      exclude_processes |-> << "Code Helper" >>,
      score_threshold   |-> threshold ]

\* the default threshold, and one that only a strong match reaches
Thresholds == { DEV_SCORE_THRESHOLD, 65 }

Configs == { TestConfig(threshold) : threshold \in Thresholds }

PortInfo(port, process, pid, command, start_time, address) ==
    [ port |-> port, process |-> process, pid |-> pid, command |-> command,
      start_time |-> start_time, address |-> address ]

\* the process table of the modelled host: what ps reports for a pid (command
\* line, start time) and the address the process binds
PsCommand(pid) ==
    CASE pid = "111" -> "vite dev"
      [] pid = "222" -> "nginx -g daemon"
      [] OTHER       -> "sshd -D"

PsStart(pid) ==
    CASE pid = "111" -> "Tue"
      [] pid = "222" -> "Mon"
      [] OTHER       -> "Mon"

BindAddress(pid) ==
    CASE pid = "111" -> "127.0.0.1"
      [] pid = "222" -> "10.0.0.5"
      [] OTHER       -> "*"

Listener(port, process, pid) ==
    PortInfo(port, process, pid, PsCommand(pid), PsStart(pid), BindAddress(pid))

Ports == { 80, 3000, 3001 }
Processes == { "Node", "nginx" }
Pids == { "111", "222" }

Pool == { Listener(port, process, pid) : port \in Ports, process \in Processes, pid \in Pids }

SeqsUpTo(S, n) == UNION { [1..k -> S] : k \in 0..n }

\* a host with two services, each named after its pid, on four ports: the
\* records of a port are adjacent, the ports ascend
WidePorts == { 80, 443, 8080, 8443 }

ServiceName(pid) == IF pid = "222" THEN "nginx" ELSE "sshd"

WidePool == { Listener(port, ServiceName(pid), pid) : port \in WidePorts, pid \in { "222", "333" } }

WideInputs ==
    { s \in [1..(MaxRecords + 1) -> WidePool] :
        \A i \in 1..MaxRecords : s[i].port <= s[i + 1].port }

Inputs == SeqsUpTo(Pool, MaxRecords) \cup WideInputs

\* the end-to-end scenario of the documentation
Scenario ==
    << PortInfo(3000, "node", "111", "vite dev", "", "127.0.0.1"),
       PortInfo(5432, "postgres", "222", "postgres -D /data", "", "*") >>

Clis == [ all : BOOLEAN, limit : 0..MaxLimit, sort_recent : BOOLEAN ]

EmptyRules ==
    [ dev_processes |-> << >>, dev_keywords |-> << >>, exclude_processes |-> << >>,
      score_threshold |-> DEV_SCORE_THRESHOLD ]

\* the arguments of calc_dev_score: rules holds the three lists
NoArgs == [ process |-> "", command |-> "", port |-> 0, address |-> "", rules |-> EmptyRules ]

\* exclusion entries that occur in the names and keywords of the other lists
OverlapRules ==
    [ dev_processes     |-> << "Node", "nod", "nginx" >>,
      dev_keywords      |-> << "DEV", "webpack", "e" >>,
      exclude_processes |-> << "Dropbox", "HELPER" >>,
      score_threshold   |-> DEV_SCORE_THRESHOLD ]

ScoreRules == { DefaultConfig, TestConfig(DEV_SCORE_THRESHOLD), EmptyRules, OverlapRules }
ScoreProcesses == { "node", "NODE", "nginx", "Code Helper", "postgres", "" }
ScoreCommands == { "vite dev", "node webpack dev", "nginx", "code helper vite", "" }
ScorePorts == { 80, 2999, 3000, 3999, 4000, 5999, 6000, 7999, 8000, 9999, 10000 }
ScoreAddresses ==
    { "127.0.0.1", "localhost", "0.0.0.0", "*", "[::1]", "[::]", "10.0.0.5", "::1", "LOCALHOST" }

ScoreArgs ==
    [ process : ScoreProcesses, command : ScoreCommands, port : ScorePorts,
      address : ScoreAddresses, rules : ScoreRules ]

Idle ==
    /\ grouped = << >>
    /\ dev_processes = << >>
    /\ non_dev = << >>
    /\ others = << >>
    /\ multis = << >>
    /\ process_group_items = << >>
    /\ process_groups = << >>
    /\ total_count = 0

InitBounded ==
    /\ pc = "start"
    /\ cli \in Clis
    /\ config \in Configs
    /\ port_infos \in Inputs
    /\ Idle
    /\ args = NoArgs
    /\ score = 0

InitScenario ==
    /\ pc = "start"
    /\ cli \in Clis
    /\ config = DefaultConfig
    /\ port_infos = Scenario
    /\ Idle
    /\ args = NoArgs
    /\ score = 0

Init == InitBounded \/ InitScenario

\* a direct call of calc_dev_score
InitScore ==
    /\ pc = "call"
    /\ args \in ScoreArgs
    /\ score = 0
    /\ cli = [ all |-> FALSE, limit |-> 0, sort_recent |-> FALSE ]
    /\ config = args.rules
    /\ port_infos = << >>
    /\ Idle

(***************************************************************************)
(* main(), from the filtered records on                                    *)
(***************************************************************************)
\* filtered.is_empty(): "No ports found", return
NoPortsFound ==
    /\ pc = "start"
    /\ Len(port_infos) = 0
    /\ pc' = "exit"
    /\ UNCHANGED << cli, config, port_infos, grouped, dev_processes, non_dev, others,
                    multis, process_group_items, process_groups, total_count, args, score >>

GroupByPort ==
    /\ pc = "start"
    /\ Len(port_infos) > 0
    /\ \E order \in Perms(DOMAIN GroupedByPort(port_infos)) :
           grouped' = group_by_port(port_infos, config, order)
    /\ pc' = "grouped"
    /\ UNCHANGED << cli, config, port_infos, dev_processes, non_dev, others,
                    multis, process_group_items, process_groups, total_count, args, score >>

\* partition on the threshold, then the --all switch
DevPart(items, cfg) == SelectSeq(items, LAMBDA info : IsDev(info, cfg))

NonDevPart(items, cfg, c) ==
    IF c.all THEN SelectSeq(items, LAMBDA info : ~IsDev(info, cfg)) ELSE << >>

Partition ==
    /\ pc = "grouped"
    /\ dev_processes' = DevPart(grouped, config)
    /\ non_dev' = NonDevPart(grouped, config, cli)
    /\ pc' = "partitioned"
    /\ UNCHANGED << cli, config, port_infos, grouped, others,
                    multis, process_group_items, process_groups, total_count, args, score >>

Bucket ==
    /\ pc = "partitioned"
    /\ \E order \in Perms(DOMAIN ByProcess(non_dev)) :
           LET out == BucketLoop(ByProcess(non_dev), order, 1,
                                 [ others |-> << >>, multis |-> << >>, process_groups |-> << >> ])
           IN  /\ others' = out.others
               /\ multis' = out.multis
               /\ process_group_items' = out.process_groups
    /\ pc' = "bucketed"
    /\ UNCHANGED << cli, config, port_infos, grouped, dev_processes, non_dev,
                    process_groups, total_count, args, score >>

Regroup ==
    /\ pc = "bucketed"
    /\ \E order \in Perms(DOMAIN ByProcess(process_group_items)) :
           process_groups' = group_by_process(process_group_items, order)
    /\ pc' = "regrouped"
    /\ UNCHANGED << cli, config, port_infos, grouped, dev_processes, non_dev, others,
                    multis, process_group_items, total_count, args, score >>

Sort ==
    /\ pc = "regrouped"
    /\ IF cli.sort_recent
       THEN /\ dev_processes' = sort_by(dev_processes, "recent")
            /\ others' = sort_by(others, "recent")
            /\ multis' = sort_by(multis, "recent")
            /\ process_groups' = sort_by(process_groups, "recent")
       ELSE /\ dev_processes' = sort_by(dev_processes, "dev")
            /\ others' = sort_by(others, "port")
            /\ multis' = sort_by(multis, "port")
            /\ process_groups' = sort_by(process_groups, "name")
    /\ pc' = "sorted"
    /\ UNCHANGED << cli, config, port_infos, grouped, non_dev,
                    process_group_items, total_count, args, score >>

ApplyLimit(tier, c) == Take(tier, EffectiveLimit(c))

TotalCount(d, o, m, g) == Len(d) + Len(o) + Len(m) + Len(g)

Limit ==
    /\ pc = "sorted"
    /\ dev_processes' = ApplyLimit(dev_processes, cli)
    /\ others' = ApplyLimit(others, cli)
    /\ multis' = ApplyLimit(multis, cli)
    /\ process_groups' = ApplyLimit(process_groups, cli)
    /\ total_count' = TotalCount(dev_processes', others', multis', process_groups')
    /\ pc' = "done"
    /\ UNCHANGED << cli, config, port_infos, grouped, non_dev,
                    process_group_items, args, score >>

Next ==
    \/ NoPortsFound
    \/ GroupByPort
    \/ Partition
    \/ Bucket
    \/ Regroup
    \/ Sort
    \/ Limit

Spec == Init /\ [][Next]_vars

CalcDevScore ==
    /\ pc = "call"
    /\ score' = calc_dev_score(args.process, args.command, args.port, args.address,
                               args.rules.dev_processes, args.rules.dev_keywords,
                               args.rules.exclude_processes)
    /\ pc' = "return"
    /\ UNCHANGED << cli, config, port_infos, grouped, dev_processes, non_dev, others,
                    multis, process_group_items, process_groups, total_count, args >>

NextScore == CalcDevScore

SpecScore == InitScore /\ [][NextScore]_vars
(***************************************************************************)
(* Properties of calc_dev_score (checked under SpecScore)                  *)
(***************************************************************************)
\* a and b are equal up to the case of their ASCII letters
SameIgnoringCase(a, b) ==
    /\ Len(a) = Len(b)
    /\ \A k \in 1..Len(a) :
           \/ CharAt(a, k) = CharAt(b, k)
           \/ \E i \in 1..Len(Upper) :
                  { CharAt(a, k), CharAt(b, k) } = { CharAt(Upper, i), CharAt(Lower, i) }

\* some substring of haystack equals needle up to case
ContainsIgnoringCase(haystack, needle) ==
    \E i \in 1..(Len(haystack) + 1) : \E j \in (i - 1)..Len(haystack) :
        SameIgnoringCase(SubSeq(haystack, i, j), needle)

AnyEntryIn(text, entries) ==
    \E e \in Range(entries) : ContainsIgnoringCase(text, e)

ExclusionApplies ==
    \/ AnyEntryIn(args.process, args.rules.exclude_processes)
    \/ AnyEntryIn(args.command, args.rules.exclude_processes)

NameSignal == AnyEntryIn(args.process, args.rules.dev_processes)
KeywordSignal == AnyEntryIn(args.command, args.rules.dev_keywords)
LocalSignal == args.address \in { "127.0.0.1", "localhost", "0.0.0.0", "*", "[::1]", "[::]" }
PortSignal ==
    \/ 3000 <= args.port /\ args.port <= 5999
    \/ 8000 <= args.port /\ args.port <= 9999

Weight(signal, w) == IF signal THEN w ELSE 0

\* C2: exclusion dominance: when the process name or the command line contains
\* an exclude_processes entry, case-insensitively, calc_dev_score returns 0
\* whatever the other signals are.
C2_ExclusionDominance ==
    (pc = "return" /\ ExclusionApplies) => score = 0

\* C2 witness: a call excluded through its command line alone, with the name,
\* keyword, address and port signals all present, has returned 0.
C2_Witness ==
    /\ pc = "return"
    /\ ~AnyEntryIn(args.process, args.rules.exclude_processes)
    /\ AnyEntryIn(args.command, args.rules.exclude_processes)
    /\ NameSignal /\ KeywordSignal /\ LocalSignal /\ PortSignal
    /\ score = 0

\* C3: without an exclusion match the score is 30 for the name signal plus 25
\* for the keyword signal plus 10 for a local address plus 15 for a dev port,
\* each weight once; it never exceeds 80 and is 80 exactly when all four match.
C3_ScoreAdditivity ==
    (pc = "return" /\ ~ExclusionApplies) =>
        /\ score = Weight(NameSignal, 30) + Weight(KeywordSignal, 25)
                   + Weight(LocalSignal, 10) + Weight(PortSignal, 15)
        /\ score <= 80
        /\ (score = 80) <=> (NameSignal /\ KeywordSignal /\ LocalSignal /\ PortSignal)

\* C3 witness: a call in which several keyword entries match and all four
\* signals are present has returned 80.
C3_Witness ==
    /\ pc = "return"
    /\ ~ExclusionApplies
    /\ Cardinality({ i \in 1..Len(args.rules.dev_keywords) :
                       ContainsIgnoringCase(args.command, args.rules.dev_keywords[i]) }) >= 2
    /\ NameSignal /\ LocalSignal /\ PortSignal
    /\ score = 80
(***************************************************************************)
(* Properties of the pipeline (checked under Spec)                         *)
(***************************************************************************)
\* group_by_port has run
HasGrouped == pc \in { "grouped", "partitioned", "bucketed", "regrouped", "sorted", "done" }

\* the positions of the input records on a port
IndicesOn(port) == { i \in 1..Len(port_infos) : port_infos[i].port = port }

\* the position of the k-th input record on a port
NthIndexOn(port, k) ==
    CHOOSE i \in IndicesOn(port) : Cardinality({ j \in IndicesOn(port) : j <= i }) = k

\* the position of the first input record on a port with a pid
FirstIndexOf(port, pid) ==
    CHOOSE i \in IndicesOn(port) :
        /\ port_infos[i].pid = pid
        /\ \A j \in IndicesOn(port) : port_infos[j].pid = pid => i <= j

NoDuplicates(s) == \A i, j \in 1..Len(s) : s[i] = s[j] => i = j

\* C6: pid deduplication: the pids of every PortGroup have no duplicates, are
\* exactly the pids of the records on that port, and stand in the order of
\* their first occurrence in the input.
C6_PidDeduplication ==
    HasGrouped =>
        \A g \in Range(grouped) :
            /\ NoDuplicates(g.pids)
            /\ Range(g.pids) = { port_infos[i].pid : i \in IndicesOn(g.port) }
            /\ \A i, j \in 1..Len(g.pids) :
                   i < j => FirstIndexOf(g.port, g.pids[i]) < FirstIndexOf(g.port, g.pids[j])

\* C6 witness: a port whose three records carry the pids a, b, a, the two
\* records of pid a under different process names, grouped with pids a, b.
C6_Witness ==
    /\ pc = "grouped"
    /\ \E g \in Range(grouped) :
           /\ Cardinality(IndicesOn(g.port)) = 3
           /\ LET r1 == port_infos[NthIndexOn(g.port, 1)]
                  r2 == port_infos[NthIndexOn(g.port, 2)]
                  r3 == port_infos[NthIndexOn(g.port, 3)]
              IN  /\ r1.pid = r3.pid
                  /\ r1.pid # r2.pid
                  /\ r1.process # r3.process
                  /\ g.pids = << r1.pid, r2.pid >>

\* C7: group_by_port yields one PortGroup per distinct input port, and the
\* process_names of a group are the names of the records on its port, one
\* entry per record, in input order, duplicates kept.
C7_OneGroupPerPort ==
    HasGrouped =>
        /\ \A i, j \in 1..Len(grouped) : grouped[i].port = grouped[j].port => i = j
        /\ { g.port : g \in Range(grouped) } = { r.port : r \in Range(port_infos) }
        /\ \A g \in Range(grouped) :
               /\ Len(g.processes) = Cardinality(IndicesOn(g.port))
               /\ \A k \in 1..Len(g.processes) :
                      g.processes[k] = port_infos[NthIndexOn(g.port, k)].process

\* C7 witness: two ports grouped, one of them with the same process name
\* listed twice.
C7_Witness ==
    /\ pc = "grouped"
    /\ Len(grouped) >= 2
    /\ \E g \in Range(grouped) :
           Len(g.processes) >= 2 /\ g.processes[1] = g.processes[2]
\* C1: partition totality: with show_all, the dev tier, others, multis and the
\* process group seed, before regrouping, are pairwise disjoint, hold no
\* PortGroup twice, and together hold exactly the PortGroups of group_by_port.
C1_PartitionTotality ==
    (pc = "bucketed" /\ cli.all) =>
        LET tiers == << dev_processes, others, multis, process_group_items >>
        IN  /\ \A a, b \in 1..4 : a # b => Range(tiers[a]) \cap Range(tiers[b]) = {}
            /\ \A a \in 1..4 : NoDuplicates(tiers[a])
            /\ UNION { Range(tiers[a]) : a \in 1..4 } = Range(grouped)

\* C1 witness: with show_all, three ports have been split into a dev tier and
\* a process group seed of two ports.
C1_Witness ==
    /\ pc = "bucketed"
    /\ cli.all
    /\ Len(grouped) = 3
    /\ Len(dev_processes) = 1
    /\ Len(process_group_items) = 2

\* C5: before limiting, the dev tier holds exactly the PortGroups whose
\* dev_score reaches the configured threshold; without show_all the remainder
\* is dropped, so others, multis and the process groups stay empty.
C5_DevTierAndShowAll ==
    /\ pc \in { "partitioned", "bucketed", "regrouped", "sorted" } =>
           /\ NoDuplicates(dev_processes)
           /\ Range(dev_processes) =
                  { g \in Range(grouped) : g.dev_score >= config.score_threshold }
    /\ ~cli.all =>
           /\ non_dev = << >>
           /\ others = << >>
           /\ multis = << >>
           /\ process_group_items = << >>
           /\ process_groups = << >>

\* C5 witness: without show_all, a PortGroup scoring exactly the threshold is
\* in the dev tier and a PortGroup scoring less has been discarded.
C5_Witness ==
    /\ pc = "regrouped"
    /\ ~cli.all
    /\ \E g \in Range(dev_processes) : g.dev_score = config.score_threshold
    /\ \E g \in Range(grouped) : g.dev_score < config.score_threshold
    /\ others = << >> /\ multis = << >> /\ process_groups = << >>

\* the (port, pid) pairs of the PortGroups handed to group_by_process
SeedPairs ==
    UNION { { << g.port, pid >> : pid \in Range(g.pids) } : g \in Range(process_group_items) }

\* the places (group, position) of a pair in the output of group_by_process
PlacesOf(pair) ==
    UNION { { << k, j >> : j \in { i \in 1..Len(process_groups[k].port_pid_pairs) :
                                     process_groups[k].port_pid_pairs[i] = pair } } :
            k \in 1..Len(process_groups) }

\* C8: process regroup completeness: every (port, pid) pair of the PortGroups
\* passed to group_by_process occurs exactly once in the output, in the
\* ProcessGroup named after that PortGroup's first process name, and the
\* output holds no other pair.
C8_RegroupCompleteness ==
    pc \in { "regrouped", "sorted" } =>
        /\ \A g \in Range(process_group_items) : \A pid \in Range(g.pids) :
               /\ Cardinality(PlacesOf(<< g.port, pid >>)) = 1
               /\ \A place \in PlacesOf(<< g.port, pid >>) :
                      process_groups[place[1]].process_name = FirstProcess(g)
        /\ \A pg \in Range(process_groups) : Range(pg.port_pid_pairs) \subseteq SeedPairs

\* C8 witness: a ProcessGroup of two ports and three pairs, one pid on both
\* ports.
C8_Witness ==
    /\ pc = "regrouped"
    /\ \E pg \in Range(process_groups) :
           /\ Len(pg.port_pid_pairs) = 3
           /\ \E i, j \in 1..3 :
                  /\ pg.port_pid_pairs[i][1] # pg.port_pid_pairs[j][1]
                  /\ pg.port_pid_pairs[i][2] = pg.port_pid_pairs[j][2]
Adjacent(s) == 1..(Len(s) - 1)

AscendingPorts(s) == \A i \in Adjacent(s) : s[i].port < s[i + 1].port

Prefix(s, n) == [ i \in 1..n |-> s[i] ]

\* the number of elements a tier keeps under the limit of the command line
Kept(s) == IF cli.limit > 0 THEN (IF cli.limit < Len(s) THEN cli.limit ELSE Len(s)) ELSE Len(s)

\* C10: limit independence: the limit step cuts each of the four tiers to its
\* own first min(limit, size) elements in sorted order, cuts nothing when the
\* limit is 0, and the total count is the sum of the four sizes after the cut.
C10_LimitIndependence ==
    [][ (pc = "sorted" /\ pc' = "done") =>
            /\ dev_processes' = Prefix(dev_processes, Kept(dev_processes))
            /\ others' = Prefix(others, Kept(others))
            /\ multis' = Prefix(multis, Kept(multis))
            /\ process_groups' = Prefix(process_groups, Kept(process_groups))
            /\ total_count' = Len(dev_processes') + Len(others') + Len(multis')
                              + Len(process_groups') ]_vars

\* C10 witness: under limit 1 a dev tier of two PortGroups has been cut to
\* one while others keeps its single PortGroup, and the total count is 2.
C10_Witness ==
    /\ pc = "done"
    /\ cli.limit = 1
    /\ Cardinality({ g \in Range(grouped) : g.dev_score >= config.score_threshold }) = 2
    /\ Len(dev_processes) = 1
    /\ Len(others) = 1
    /\ total_count = 2

\* C4: the end-to-end scenario: the two records of the documentation, the
\* built-in rule set, show_all off and no limit end with the port-3000 group in
\* the dev tier, the other three tiers empty and a total count of 1.
C4_EndToEndScenario ==
    ( /\ pc = "done"
      /\ port_infos = Scenario
      /\ config = DefaultConfig
      /\ ~cli.all
      /\ cli.limit = 0 ) =>
        /\ \E g \in Range(dev_processes) : g.port = 3000
        /\ others = << >>
        /\ multis = << >>
        /\ process_groups = << >>
        /\ total_count = 1
\* the PortGroups below the threshold: the remainder under show_all
NonDevGroups == { g \in Range(grouped) : g.dev_score < config.score_threshold }

\* the owning process name of a PortGroup: its first name, or the empty string
OwnerOf(g) == IF g.processes = << >> THEN "" ELSE Head(g.processes)

\* the number of remainder PortGroups owned by the owner of g
BucketSize(g) == Cardinality({ h \in NonDevGroups : OwnerOf(h) = OwnerOf(g) })

\* C11: tier bucket rule: with show_all, a remainder PortGroup is in others iff
\* its owner owns no other remainder PortGroup and it has one pid, in multis
\* iff its owner owns no other and it has several pids, and in the process
\* group seed iff its owner owns several, whatever its number of pids.
C11_TierBucketRule ==
    (pc = "bucketed" /\ cli.all) =>
        \A g \in NonDevGroups :
            /\ g \in Range(others) <=> (BucketSize(g) = 1 /\ Len(g.pids) = 1)
            /\ g \in Range(multis) <=> (BucketSize(g) = 1 /\ Len(g.pids) > 1)
            /\ g \in Range(process_group_items) <=> BucketSize(g) > 1

\* C11 witness: with show_all, the seed holds a PortGroup of two pids next to
\* one of a single pid, and others holds a PortGroup of another owner.
C11_Witness ==
    /\ pc = "bucketed"
    /\ cli.all
    /\ \E g, h \in Range(process_group_items) : Len(g.pids) = 2 /\ Len(h.pids) = 1
    /\ Len(others) = 1

MultiPortOwners == { OwnerOf(g) : g \in { h \in NonDevGroups : BucketSize(h) >= 2 } }

\* the ports of the pairs of a ProcessGroup
PortsOfPairs(pg) == { pg.port_pid_pairs[j][1] : j \in 1..Len(pg.port_pid_pairs) }

\* C13: process groups: with show_all, before the limit, the process groups
\* are one per owner of two or more remainder PortGroups and none for another
\* name; no two share a process_name; each has a non-empty port_pid_pairs
\* spanning at least two distinct ports.
C13_ProcessGroupsPerOwner ==
    (pc \in { "regrouped", "sorted" } /\ cli.all) =>
        /\ { process_groups[i].process_name : i \in 1..Len(process_groups) } = MultiPortOwners
        /\ \A i, j \in 1..Len(process_groups) :
               process_groups[i].process_name = process_groups[j].process_name => i = j
        /\ \A i \in 1..Len(process_groups) :
               /\ Len(process_groups[i].port_pid_pairs) > 0
               /\ Cardinality(PortsOfPairs(process_groups[i])) >= 2

\* C13 witness: with show_all, two owners hold two remainder PortGroups each
\* and two process groups came out, in descending order of name.
C13_Witness ==
    /\ pc = "regrouped"
    /\ cli.all
    /\ Cardinality(MultiPortOwners) = 2
    /\ Len(process_groups) = 2
    /\ StrLess(process_groups[2].process_name, process_groups[1].process_name)

\* the keys of a map of ports, ascending: one fixed iteration order
PortsAscending(S) == CHOOSE f \in Perms(S) : \A i, j \in DOMAIN f : i < j => f[i] < f[j]

\* the keys of a map of names, ascending: one fixed iteration order
NamesAscending(S) ==
    CHOOSE f \in Perms(S) : \A i, j \in DOMAIN f : i < j => StrLess(f[i], f[j])

\* the run of main on the input of this behaviour in which every hash map
\* iterates in ascending key order
RefGrouped ==
    group_by_port(port_infos, config, PortsAscending(DOMAIN GroupedByPort(port_infos)))

RefNonDev == NonDevPart(RefGrouped, config, cli)

RefBuckets ==
    BucketLoop(ByProcess(RefNonDev), NamesAscending(DOMAIN ByProcess(RefNonDev)), 1,
               [ others |-> << >>, multis |-> << >>, process_groups |-> << >> ])

RefProcessGroups ==
    group_by_process(RefBuckets.process_groups,
                     NamesAscending(DOMAIN ByProcess(RefBuckets.process_groups)))

RefFinal(tier, cmp) == ApplyLimit(sort_by(tier, cmp), cli)

\* the process_name values of a sequence of ProcessGroups
NamesOf(groups) == [ i \in 1..Len(groups) |-> groups[i].process_name ]

\* C14: output determinism: in default sort mode, whatever the iteration
\* orders of the hash maps of group_by_port, the tier partition and
\* group_by_process, the final dev tier, others and multis (elements and
\* order) and the process_name values of the final process groups are those of
\* the run on the same records, rule set, show_all and limit in which every
\* map iterates in ascending key order.
C14_OutputDeterminism ==
    (pc = "done" /\ ~cli.sort_recent) =>
        /\ dev_processes = RefFinal(DevPart(RefGrouped, config), "dev")
        /\ others = RefFinal(RefBuckets.others, "port")
        /\ multis = RefFinal(RefBuckets.multis, "port")
        /\ NamesOf(process_groups) = NamesOf(RefFinal(RefProcessGroups, "name"))

\* C14 witness: a default-mode run with show_all has ended whose map of ports
\* did not iterate in ascending order, with two dev PortGroups of equal score
\* and a remainder PortGroup in others.
C14_Witness ==
    /\ pc = "done"
    /\ ~cli.sort_recent
    /\ cli.all
    /\ grouped # RefGrouped
    /\ Len(dev_processes) = 2
    /\ dev_processes[1].dev_score = dev_processes[2].dev_score
    /\ Len(others) = 1
====
